---- MODULE Spec2Model ----
(***************************************************************************)
(* A model of the Context7 documentation bot: the retrieval client         *)
(* (src/context7_client.py) and the /ask command with its embed renderer   *)
(* (src/main.py).                                                          *)
(*                                                                         *)
(* Specifications:                                                         *)
(*   Spec       the client: concurrent _request calls and close() on one   *)
(*              Context7Client                                             *)
(*   SpecShape  get_context and search_library on one response body       *)
(*   SpecAsk    ask_command: the concurrent fan-out, the join, the embed   *)
(*   SpecRender build_embed, one loop iteration per step                   *)
(*   SpecTruncate _safe_truncate on one text and one limit                 *)
(***************************************************************************)
EXTENDS Integers, Sequences, FiniteSets, TLC

(***************************************************************************)
(* Bounds of the model and constants of the program.                       *)
(***************************************************************************)
\* Number of concurrent _request calls on the one client (Spec).
NumTasks == 2

\* Largest number of keys of a response object (SpecShape).
MaxKeys == 3

\* Largest number of records handed to build_embed (SpecRender).
MaxSnips == 7

\* Largest number of runs of equal characters in a text handed to
\* _safe_truncate (SpecTruncate).
MaxRuns == 4

\* context7_client.py:11
MAX_RETRIES == 3

\* The status the retry loop treats as rate limiting (context7_client.py:45).
RATE_LIMITED == 429

\* The first status that is an error (context7_client.py:54).
ERROR_FLOOR == 400

\* HTTP statuses the upstream may answer with: a success, the lowest error
\* status, and rate limiting.
Statuses == {200, 400, 429}

Tasks == 1..NumTasks

VARIABLES
    \* ---- Context7Client ----
    cur,        \* self._session: 0 is None, otherwise the id of a session
    closedS,    \* the ids of the sessions whose .closed is True
    nsess,      \* number of ClientSession objects constructed so far
    lastOp,     \* what the last step was: "init", "start" (a call began),
                \* "resume" (a call went on after an await), "close"
    closeExc,   \* TRUE iff the last close() raised
    \* ---- one _request call per task ----
    pc,         \* "idle", "get" (awaiting session.get), "sleep", "text"
                \* (awaiting resp.text()), "done"
    sess,       \* the local variable `session` of _request (0: not yet bound)
    attempt,    \* the loop variable `attempt`
    nreq,       \* number of HTTP requests sent
    hist,       \* the statuses received so far, in order
    sleeps,     \* the arguments of the asyncio.sleep calls so far, in order
    out,        \* "pending", "ok", "upstream", "exhausted", "neterr", "sessclosed"
    rstatus,    \* the status of the response returned or raised with (0: none)
    \* ---- response normalisation (SpecShape) ----
    body,       \* the parsed JSON body of a successful response
    gcRet,      \* what get_context returned or raised for it
    slRet,      \* what search_library returned or raised for it
    \* ---- ask_command (SpecAsk): task t fetches libIds[t] ----
    libIds,     \* lib_ids, the libraries requested, in order
    fbody,      \* the parsed JSON body of a task's successful response
    returned,   \* whether a task's _fetch has returned
    results,    \* what a task's _fetch returned
    doneOrder,  \* the tasks in the order their _fetch returned
    allSnips,   \* all_snippets
    askPc,      \* "idle", "gather", then the reply the command has gone
                \* for: "nodocs" (line 120), "sent" (the embed, line 130),
                \* "failed" (the handler of line 132)
    embed,      \* what build_embed returned or raised in ask_command
    sendPc,     \* the last followup.send: "none", "flight", "done", "raised"
    sendLog,    \* what was handed to followup.send, in order: "nodocs",
                \* "embed", "apology"
    \* ---- build_embed (SpecRender) ----
    rIn,        \* the argument `snippets`
    rDeduped,   \* the local variable `deduped`
    rQueue,     \* what is left of deduped[:6]
    rFields,    \* the fields added to the embed so far
    rTotal,     \* total_len
    rPc,        \* "idle", "start", "loop", "done", "raised"
    \* ---- _safe_truncate (SpecTruncate) ----
    tText,      \* the argument `text`
    tLimit,     \* the argument `limit`
    tOut,       \* the returned string
    tPc         \* "idle", "call", "returned"

clientVars == <<cur, closedS, nsess, lastOp, closeExc>>
taskVars == <<pc, sess, attempt, nreq, hist, sleeps, out, rstatus>>
shapeVars == <<body, gcRet, slRet>>
askVars ==
    <<libIds, fbody, returned, results, doneOrder, allSnips, askPc, embed,
      sendPc, sendLog>>
renderVars == <<rIn, rDeduped, rQueue, rFields, rTotal, rPc>>
truncVars == <<tText, tLimit, tOut, tPc>>
vars == <<cur, closedS, nsess, lastOp, closeExc,
          pc, sess, attempt, nreq, hist, sleeps, out, rstatus,
          body, gcRet, slRet,
          libIds, fbody, returned, results, doneOrder, allSnips, askPc, embed,
          sendPc, sendLog,
          rIn, rDeduped, rQueue, rFields, rTotal, rPc,
          tText, tLimit, tOut, tPc>>

(***************************************************************************)
(* Arithmetic helpers.                                                     *)
(***************************************************************************)
RECURSIVE Pow2(_)
Pow2(n) == IF n = 0 THEN 1 ELSE 2 * Pow2(n - 1)

RECURSIVE SumSeq(_)
SumSeq(s) == IF s = <<>> THEN 0 ELSE s[1] + SumSeq(Tail(s))

\* Cumulative backoff wait of a task, in seconds.
Waited(t) == SumSeq(sleeps[t])

(***************************************************************************)
(* Python strings, as run-length sequences: <<[c |-> "a", n |-> 1000]>> is *)
(* "a" * 1000.  A string is kept normalised (every n >= 1, adjacent runs   *)
(* of different characters), so equal strings are equal sequences.         *)
(* Characters are named by strings: letters and " " by themselves, "nl"    *)
(* the newline, "tick" the backtick, "ellipsis" the one-character U+2026.  *)
(***************************************************************************)
Run(c, n) == [c |-> c, n |-> n]

\* c * n
Rep(c, n) == IF n <= 0 THEN <<>> ELSE <<Run(c, n)>>

Max(a, b) == IF a >= b THEN a ELSE b
Min(a, b) == IF a <= b THEN a ELSE b

\* len(s)
RECURSIVE StrLen(_)
StrLen(s) == IF s = <<>> THEN 0 ELSE s[1].n + StrLen(Tail(s))

\* a + b
StrCat(a, b) ==
    IF a = <<>> THEN b
    ELSE IF b = <<>> THEN a
    ELSE IF a[Len(a)].c = b[1].c
         THEN SubSeq(a, 1, Len(a) - 1)
                  \o <<Run(b[1].c, a[Len(a)].n + b[1].n)>> \o Tail(b)
         ELSE a \o b

\* The first k characters of s, k >= 0.
RECURSIVE StrTake(_, _)
StrTake(s, k) ==
    IF k <= 0 \/ s = <<>> THEN <<>>
    ELSE IF s[1].n >= k THEN <<Run(s[1].c, k)>>
    ELSE <<s[1]>> \o StrTake(Tail(s), k - s[1].n)

\* s[:m]: a negative m counts from the end, clamped at 0.
PySliceTo(s, m) ==
    IF m >= 0 THEN StrTake(s, m) ELSE StrTake(s, Max(StrLen(s) + m, 0))

IsSpace(c) == c \in {" ", "nl"}

\* s.rstrip(), s.lstrip(), s.strip()
RECURSIVE RStrip(_)
RStrip(s) ==
    IF s = <<>> THEN <<>>
    ELSE IF IsSpace(s[Len(s)].c) THEN RStrip(SubSeq(s, 1, Len(s) - 1))
    ELSE s

RECURSIVE LStrip(_)
LStrip(s) ==
    IF s = <<>> THEN <<>>
    ELSE IF IsSpace(s[1].c) THEN LStrip(Tail(s))
    ELSE s

Strip(s) == LStrip(RStrip(s))

UpperLetters ==
    <<"A", "B", "C", "D", "E", "F", "G", "H", "I", "J", "K", "L", "M",
      "N", "O", "P", "Q", "R", "S", "T", "U", "V", "W", "X", "Y", "Z">>

LowerLetters ==
    <<"a", "b", "c", "d", "e", "f", "g", "h", "i", "j", "k", "l", "m",
      "n", "o", "p", "q", "r", "s", "t", "u", "v", "w", "x", "y", "z">>

\* c.lower(): the letters A to Z go to a to z, every other character of
\* the model's alphabet is left as it is.
LowerChar(c) ==
    IF \E i \in DOMAIN UpperLetters : UpperLetters[i] = c
    THEN LowerLetters[CHOOSE i \in DOMAIN UpperLetters : UpperLetters[i] = c]
    ELSE c

\* s.lower()
RECURSIVE Lower(_)
Lower(s) ==
    IF s = <<>> THEN <<>>
    ELSE StrCat(<<Run(LowerChar(s[1].c), s[1].n)>>, Lower(Tail(s)))

\* s.count of the fence (three ticks): non-overlapping occurrences, left to right.
RECURSIVE CountFences(_)
CountFences(s) ==
    IF s = <<>> THEN 0
    ELSE (IF s[1].c = "tick" THEN s[1].n \div 3 ELSE 0) + CountFences(Tail(s))

\* s.rfind of the fence: the highest index at which three ticks start, or -1.
RECURSIVE RFindFenceFrom(_, _)
RFindFenceFrom(s, i) ==
    IF i = 0 THEN -1
    ELSE IF s[i].c = "tick" /\ s[i].n >= 3
         THEN StrLen(SubSeq(s, 1, i - 1)) + s[i].n - 3
         ELSE RFindFenceFrom(s, i - 1)

RFindFence(s) == RFindFenceFrom(s, Len(s))

\* The string of the characters named, in order.
RECURSIVE Lit(_)
Lit(cs) == IF cs = <<>> THEN <<>> ELSE StrCat(<<Run(cs[1], 1)>>, Lit(Tail(cs)))

\* s * n for a string s
RECURSIVE RepStr(_, _)
RepStr(s, n) == IF n <= 0 THEN <<>> ELSE StrCat(s, RepStr(s, n - 1))

(***************************************************************************)
(* JSON values as Python holds them after resp.json(): every value is a    *)
(* record of the same four fields.                                         *)
(*   "null" None, "bool" bool (s: its str(), "True" or "False"),           *)
(*   "num" int/float (s: its str()), "str" str (s),                        *)
(*   "list" list (items), "obj" dict (obj: a function on its keys; keys:   *)
(*   its keys in the order of insertion, which a dict keeps)               *)
(* JBool is True and JNum is 5.                                            *)
(***************************************************************************)
JNull == [t |-> "null", s |-> <<>>, items |-> <<>>, obj |-> <<>>, keys |-> <<>>]
JBool ==
    [t |-> "bool", s |-> Lit(<<"T", "r", "u", "e">>), items |-> <<>>,
     obj |-> <<>>, keys |-> <<>>]
JNum == [t |-> "num", s |-> Lit(<<"5">>), items |-> <<>>, obj |-> <<>>, keys |-> <<>>]
\* A number whose str() is s
JNumOf(s) == [t |-> "num", s |-> s, items |-> <<>>, obj |-> <<>>, keys |-> <<>>]
JStr(s) == [t |-> "str", s |-> s, items |-> <<>>, obj |-> <<>>, keys |-> <<>>]
JList(l) == [t |-> "list", s |-> <<>>, items |-> l, obj |-> <<>>, keys |-> <<>>]

\* The keys of a JSON object in the order a dict keeps them: each key at
\* the place of its first occurrence in the text.
RECURSIVE InsertionOrder(_)
InsertionOrder(pairs) ==
    IF pairs = <<>> THEN <<>>
    ELSE LET n == Len(pairs)
             front == InsertionOrder(SubSeq(pairs, 1, n - 1))
             k == pairs[n][1]
         IN IF \E i \in DOMAIN front : front[i] = k THEN front
            ELSE Append(front, k)

\* The value a dict holds under k: that of the last pair with this key.
LastValue(pairs, k) ==
    pairs[CHOOSE i \in DOMAIN pairs :
              /\ pairs[i][1] = k
              /\ \A j \in (i + 1)..Len(pairs) : pairs[j][1] # k][2]

\* The dict of a JSON object given as its <<key, value>> pairs in the
\* order of the text.
JObj(pairs) ==
    [t |-> "obj", s |-> <<>>, items |-> <<>>,
     obj |-> [k \in {pairs[i][1] : i \in DOMAIN pairs} |-> LastValue(pairs, k)],
     keys |-> InsertionOrder(pairs)]

\* isinstance(v, list), isinstance(v, dict)
IsList(v) == v.t = "list"
IsDict(v) == v.t = "obj"

\* key in d
HasKey(d, k) == k \in DOMAIN d.obj

\* d.get(k, dflt)
DictGet(d, k, dflt) == IF HasKey(d, k) THEN d.obj[k] ELSE dflt

\* Whether character c occurs in s.
HasChar(s, c) == \E k \in DOMAIN s : s[k].c = c

\* The quote repr() puts around a string: the double quote when the string
\* holds a single quote and no double quote, else the single quote.
ReprQuote(s) == IF HasChar(s, "'") /\ ~HasChar(s, "\"") THEN "\"" ELSE "'"

\* repr() of one run of a string quoted with q: backslash, newline and the
\* quote itself are escaped.
ReprRun(r, q) ==
    IF r.c = "\\" THEN <<Run("\\", 2 * r.n)>>
    ELSE IF r.c = "nl" THEN RepStr(Lit(<<"\\", "n">>), r.n)
    ELSE IF r.c = q THEN RepStr(Lit(<<"\\", q>>), r.n)
    ELSE <<r>>

RECURSIVE ReprRuns(_, _)
ReprRuns(s, q) ==
    IF s = <<>> THEN <<>> ELSE StrCat(ReprRun(s[1], q), ReprRuns(Tail(s), q))

\* repr(s) of a string
ReprStr(s) ==
    LET q == ReprQuote(s) IN StrCat(StrCat(Lit(<<q>>), ReprRuns(s, q)), Lit(<<q>>))

\* The name the model gives to a character of a key: the newline is "nl"
\* as in every string of the model, any other character is itself.
CharName(c) == IF c = "\n" THEN "nl" ELSE c

\* The characters of a key of an object, one for each character of the
\* key.
RECURSIVE KeyChars(_)
KeyChars(k) ==
    IF k = "" THEN <<>>
    ELSE StrCat(<<Run(CharName(Head(k)), 1)>>, KeyChars(Tail(k)))

\* repr(v) (what str() gives for a list or a dict)
RECURSIVE PyRepr(_)
RECURSIVE ReprItems(_)
RECURSIVE ReprPairs(_, _)
PyRepr(v) ==
    CASE v.t = "null" -> Lit(<<"N", "o", "n", "e">>)
      [] v.t \in {"bool", "num"} -> v.s
      [] v.t = "str" -> ReprStr(v.s)
      [] v.t = "list" ->
             StrCat(StrCat(Lit(<<"[">>), ReprItems(v.items)), Lit(<<"]">>))
      [] OTHER ->
             StrCat(StrCat(Lit(<<"{">>), ReprPairs(v.obj, v.keys)), Lit(<<"}">>))

\* ", ".join(repr(x) for x in items)
ReprItems(items) ==
    IF items = <<>> THEN <<>>
    ELSE IF Len(items) = 1 THEN PyRepr(items[1])
    ELSE LET m == Len(items) \div 2 IN
         StrCat(StrCat(ReprItems(SubSeq(items, 1, m)), Lit(<<",", " ">>)),
                ReprItems(SubSeq(items, m + 1, Len(items))))

ReprPairs(f, ks) ==
    IF ks = <<>> THEN <<>>
    ELSE LET pair == StrCat(StrCat(ReprStr(KeyChars(ks[1])), Lit(<<":", " ">>)),
                            PyRepr(f[ks[1]]))
         IN IF Len(ks) = 1 THEN pair
            ELSE StrCat(StrCat(pair, Lit(<<",", " ">>)), ReprPairs(f, Tail(ks)))

\* str(v)
PyStr(v) == IF v.t = "str" THEN v.s ELSE PyRepr(v)

\* len(v) of a list or a dict
PyLen(v) == IF v.t = "list" THEN Len(v.items) ELSE Cardinality(DOMAIN v.obj)

\* bool(v)
Truthy(v) ==
    CASE v.t = "null" -> FALSE
      [] v.t = "bool" -> v.s = Lit(<<"T", "r", "u", "e">>)
      [] v.t = "num" ->
             v.s \notin {Lit(<<"0">>), Lit(<<"0", ".", "0">>),
                         Lit(<<"-", "0", ".", "0">>)}
      [] v.t = "str" -> v.s # <<>>
      [] OTHER -> PyLen(v) > 0

\* The result of a call: a value returned, or the exception raised.
Returned(v) == [exc |-> "none", val |-> v]
Raised(e) == [exc |-> e, val |-> JNull]
NoRet == [exc |-> "unset", val |-> JNull]

(***************************************************************************)
(* Context7Client.get_context in JSON mode, after _request has returned    *)
(* (context7_client.py:90-104).  The /ask command only uses JSON mode.     *)
(***************************************************************************)
\* The keys tried at line 95, in order.
ContainerKeys == <<"results", "snippets", "context", "data", "items">>

RECURSIVE FirstPresentFrom(_, _)
FirstPresentFrom(data, i) ==
    IF i > Len(ContainerKeys) THEN JNull
    ELSE IF HasKey(data, ContainerKeys[i]) THEN data.obj[ContainerKeys[i]]
    ELSE FirstPresentFrom(data, i + 1)

\* Lines 95-97 from key number i on: the value of the first key that is
\* present and holds a list; JNull when there is none.
RECURSIVE FirstListFrom(_, _)
FirstListFrom(data, i) ==
    IF i > Len(ContainerKeys) THEN JNull
    ELSE IF HasKey(data, ContainerKeys[i]) /\ IsList(data.obj[ContainerKeys[i]])
         THEN data.obj[ContainerKeys[i]]
    ELSE FirstListFrom(data, i + 1)

GetContextJson(data) ==
    IF IsList(data) THEN Returned(data)
    \* line 94: data.keys() on a str, number, bool or None
    ELSE IF ~IsDict(data) THEN Raised("AttributeError")
    ELSE LET found == FirstListFrom(data, 1) IN
         IF IsList(found) THEN Returned(found)
         ELSE IF HasKey(data, "content") \/ HasKey(data, "title")
              THEN Returned(JList(<<data>>))
         ELSE Returned(JList(<<>>))

(***************************************************************************)
(* Context7Client.search_library after _request has returned               *)
(* (context7_client.py:72-75).                                             *)
(***************************************************************************)
SearchLibraryJson(data) ==
    IF IsList(data) THEN Returned(data)
    \* line 75: data.get on a str, number, bool or None
    ELSE IF ~IsDict(data) THEN Raised("AttributeError")
    ELSE Returned(DictGet(data, "results", DictGet(data, "libraries", JList(<<>>))))

(***************************************************************************)
(* main.py: _dedup_snippets, _safe_truncate and build_embed.               *)
(***************************************************************************)
\* main.py:171
FINGERPRINT_LEN == 200
\* main.py:207
MAX_EMBED_LEN == 5500
\* main.py:208
MAX_FIELD_LEN == 1024
\* main.py:210
MAX_FIELDS == 6
\* main.py:231
MAX_NAME_LEN == 256

\* The one-character marker appended by _safe_truncate (main.py:193).
Ellipsis == <<Run("ellipsis", 1)>>

\* The default of snip.get("title", ...) (main.py:211).
Untitled ==
    <<Run("U", 1), Run("n", 1), Run("t", 1), Run("i", 1),
      Run("t", 1), Run("l", 1), Run("e", 1), Run("d", 1)>>

EmptyStr == JStr(<<>>)

\* A truncation that cuts at limit - 1 and never looks at the fences.
SafeTruncatePlain(text, limit) ==
    IF StrLen(text) <= limit THEN text
    ELSE StrCat(PySliceTo(text, limit - 1), Ellipsis)

\* _safe_truncate(text, limit) (main.py:179-193).
SafeTruncate(text, limit) ==
    IF StrLen(text) <= limit THEN text
    ELSE LET truncated == PySliceTo(text, limit - 1)
             cut == IF CountFences(truncated) % 2 # 0
                    THEN RStrip(PySliceTo(truncated, RFindFence(truncated)))
                    ELSE truncated
         IN StrCat(cut, Ellipsis)

\* A fingerprint that keeps the letter case.
FingerprintCaseSensitive(content) == Strip(PySliceTo(content, FINGERPRINT_LEN))

\* content[:200].strip().lower() (main.py:171)
Fingerprint(content) == Lower(Strip(PySliceTo(content, FINGERPRINT_LEN)))

\* What lines 169-171 raise for this snippet: AttributeError for snip.get
\* on a snippet that is no dict and for .strip() on the slice of a list,
\* TypeError for the slice of None, a bool, a number or a dict, else "none".
FingerprintExc(snip) ==
    IF ~IsDict(snip) THEN "AttributeError"
    ELSE LET content == DictGet(snip, "content", EmptyStr) IN
         IF content.t = "str" THEN "none"
         ELSE IF content.t = "list" THEN "AttributeError"
         ELSE "TypeError"

\* A dedupe that remembers only the fingerprint of the record before.
RECURSIVE DedupFromAdjacent(_, _, _, _)
DedupFromAdjacent(snips, i, seen, unique) ==
    IF i > Len(snips) THEN [exc |-> "none", val |-> unique]
    ELSE IF FingerprintExc(snips[i]) # "none"
         THEN [exc |-> FingerprintExc(snips[i]), val |-> <<>>]
    ELSE LET fp == Fingerprint(DictGet(snips[i], "content", EmptyStr).s) IN
         IF fp \in seen
         THEN DedupFromAdjacent(snips, i + 1, {fp}, unique)
         ELSE DedupFromAdjacent(snips, i + 1, {fp}, Append(unique, snips[i]))

\* The loop of _dedup_snippets (main.py:168-175) from snippet i on.
RECURSIVE DedupFrom(_, _, _, _)
DedupFrom(snips, i, seen, unique) ==
    IF i > Len(snips) THEN [exc |-> "none", val |-> unique]
    ELSE IF FingerprintExc(snips[i]) # "none"
         THEN [exc |-> FingerprintExc(snips[i]), val |-> <<>>]
    ELSE LET fp == Fingerprint(DictGet(snips[i], "content", EmptyStr).s) IN
         IF fp \in seen
         THEN DedupFrom(snips, i + 1, seen, unique)
         ELSE DedupFrom(snips, i + 1, seen \cup {fp}, Append(unique, snips[i]))

\* _dedup_snippets(snippets) (main.py:164-176)
DedupSnippets(snips) == DedupFrom(snips, 1, {}, <<>>)

\* f"\n[Source]({source})" or "" (main.py:215-218)
SourceLink(source) ==
    IF Truthy(source)
    THEN StrCat(StrCat(<<Run("nl", 1), Run("[", 1), Run("S", 1), Run("o", 1),
                         Run("u", 1), Run("r", 1), Run("c", 1), Run("e", 1),
                         Run("]", 1), Run("(", 1)>>, PyStr(source)),
                <<Run(")", 1)>>)
    ELSE <<>>

\* field_text of a snippet whose content is a string (main.py:212-223)
FieldText(snip) ==
    LET link == SourceLink(DictGet(snip, "source", EmptyStr))
        available == MAX_FIELD_LEN - StrLen(link) - 1
    IN StrCat(SafeTruncate(DictGet(snip, "content", EmptyStr).s, available), link)

\* str(title[:256]) for a title that is a string or a list (main.py:231;
\* add_field stores str(name)).
SliceName(title) ==
    IF title.t = "str" THEN PySliceTo(title.s, MAX_NAME_LEN)
    ELSE PyRepr(JList(SubSeq(title.items, 1, Min(Len(title.items), MAX_NAME_LEN))))

\* The test of line 227.
OverBudgetBeforeAdding(total, len) == total > MAX_EMBED_LEN

OverBudget(total, len) == total + len > MAX_EMBED_LEN

\* One iteration of the loop of build_embed (main.py:210-231) on the state
\* [fields, total, status], status "run" before it; after it "run", "break"
\* or "raised".
EmbedIter(st, snip) ==
    LET title == DictGet(snip, "title", JStr(Untitled))
        content == DictGet(snip, "content", EmptyStr)
    IN
    \* line 221: len(None)
    IF content.t # "str" THEN [st EXCEPT !.status = "raised"]
    ELSE LET text == FieldText(snip) IN
         IF Strip(text) = <<>> THEN st
         ELSE IF OverBudget(st.total, StrLen(text))
              THEN [st EXCEPT !.status = "break"]
         \* line 231: title[:256] on None, a bool, a number or a dict
         ELSE IF title.t \notin {"str", "list"}
              THEN [st EXCEPT !.status = "raised", !.total = @ + StrLen(text)]
         ELSE [fields |-> Append(st.fields,
                                 [name |-> SliceName(title), value |-> text]),
               total |-> st.total + StrLen(text),
               status |-> "run"]

\* deduped[:6] (main.py:210)
FirstFields(deduped) == SubSeq(deduped, 1, Min(Len(deduped), MAX_FIELDS))

RECURSIVE EmbedLoop(_, _)
EmbedLoop(st, queue) ==
    IF queue = <<>> \/ st.status # "run" THEN st
    ELSE EmbedLoop(EmbedIter(st, Head(queue)), Tail(queue))

EmbedStart == [fields |-> <<>>, total |-> 0, status |-> "run"]

\* build_embed(query, snippets, source_label) (main.py:196-234): the fields
\* of the embed returned, or the exception raised.
BuildEmbed(snips) ==
    LET d == DedupSnippets(snips) IN
    IF d.exc # "none" THEN [exc |-> d.exc, fields |-> <<>>]
    ELSE LET st == EmbedLoop(EmbedStart, FirstFields(d.val)) IN
         IF st.status = "raised" THEN [exc |-> "TypeError", fields |-> <<>>]
         ELSE [exc |-> "none", fields |-> st.fields]

(***************************************************************************)
(* Context7Client._get_session (context7_client.py:27-33).                 *)
(* Returns <<current session, closed set, number constructed>> after the   *)
(* call: a new session is constructed iff there is none or it is closed.   *)
(***************************************************************************)
GetSessionAlwaysNew(c, cl, n) == [cur |-> n + 1, nsess |-> n + 1]

GetSession(c, cl, n) ==
    IF c = 0 \/ c \in cl
    THEN [cur |-> n + 1, nsess |-> n + 1]
    ELSE [cur |-> c, nsess |-> n]

(***************************************************************************)
(* Context7Client.close (context7_client.py:106-108).                      *)
(* Returns the closed set after the call and whether the call raised.      *)
(***************************************************************************)
CloseSession(c, cl) ==
    IF c # 0 /\ c \notin cl
    THEN [closedS |-> cl \cup {c}, exc |-> FALSE]
    ELSE [closedS |-> cl, exc |-> FALSE]

(***************************************************************************)
(* Context7Client._request (context7_client.py:35-65), one step per        *)
(* stretch of code between two suspension points.                          *)
(***************************************************************************)
\* The backoff wait after a 429 at the given attempt (context7_client.py:46).
BackoffLinear(a) == a + 1

BackoffOffByOne(a) == Pow2(a + 1)

Backoff(a) == Pow2(a)

\* What the loop does with a response status (context7_client.py:45-63):
\* "retry" (sleep and continue), "raise" (raise_for_status) or "return".
Classify(st) ==
    IF st = RATE_LIMITED THEN "retry"
    ELSE IF st >= ERROR_FLOOR THEN "raise"
    ELSE "return"

\* A retry counter kept on the client and shared by its calls.
AttemptShared(t) == SumSeq(attempt)

\* The loop variable `attempt` of call t (context7_client.py:39), a local
\* of the coroutine.
AttemptOf(t) == attempt[t]

\* Whether the loop has another iteration after `a` (context7_client.py:39).
HasAttempt(a) == a < MAX_RETRIES

\* Lines 36-42 up to the first suspension: bind the session, enter the loop
\* at attempt 0 and send the first GET.
Start(t) ==
    /\ pc[t] = "idle"
    /\ LET g == GetSession(cur, closedS, nsess) IN
        /\ cur' = g.cur
        /\ nsess' = g.nsess
        /\ sess' = [sess EXCEPT ![t] = g.cur]
    /\ nreq' = [nreq EXCEPT ![t] = 1]
    /\ pc' = [pc EXCEPT ![t] = "get"]
    /\ lastOp' = "start"
    /\ UNCHANGED <<closedS, closeExc, attempt, hist, sleeps, out, rstatus>>
    /\ UNCHANGED <<shapeVars, askVars, renderVars, truncVars>>

\* Lines 42-63 up to the next suspension: session.get returns a response
\* with status st.  A 429 leads into asyncio.sleep (line 51), another
\* status >= 400 into the await of resp.text() (line 55), any other status
\* to the return of line 63.
Respond(t, st) ==
    /\ pc[t] = "get"
    /\ hist' = [hist EXCEPT ![t] = Append(@, st)]
    /\ CASE Classify(st) = "retry" ->
              /\ sleeps' = [sleeps EXCEPT ![t] = Append(@, Backoff(AttemptOf(t)))]
              /\ pc' = [pc EXCEPT ![t] = "sleep"]
              /\ UNCHANGED <<out, rstatus>>
         [] Classify(st) = "raise" ->
              /\ pc' = [pc EXCEPT ![t] = "text"]
              /\ UNCHANGED <<out, rstatus, sleeps>>
         [] OTHER ->
              /\ out' = [out EXCEPT ![t] = "ok"]
              /\ rstatus' = [rstatus EXCEPT ![t] = st]
              /\ pc' = [pc EXCEPT ![t] = "done"]
              /\ sleeps' = sleeps
    /\ lastOp' = "resume"
    /\ UNCHANGED <<cur, closedS, nsess, closeExc, sess, attempt, nreq>>
    /\ UNCHANGED <<shapeVars, askVars, renderVars, truncVars>>

\* Lines 55-60: resp.text() returns the body; it is logged and
\* raise_for_status() raises the error that carries the status.
TextReturn(t) ==
    /\ pc[t] = "text"
    /\ out' = [out EXCEPT ![t] = "upstream"]
    /\ rstatus' = [rstatus EXCEPT ![t] = hist[t][Len(hist[t])]]
    /\ pc' = [pc EXCEPT ![t] = "done"]
    /\ lastOp' = "resume"
    /\ UNCHANGED <<cur, closedS, nsess, closeExc, sess, attempt, nreq, hist, sleeps>>
    /\ UNCHANGED <<shapeVars, askVars, renderVars, truncVars>>

\* Line 55: resp.text() raises (the connection drops while the body is
\* read, the body cannot be decoded); the exception leaves _request.
TextFail(t) ==
    /\ pc[t] = "text"
    /\ out' = [out EXCEPT ![t] = "texterr"]
    /\ pc' = [pc EXCEPT ![t] = "done"]
    /\ lastOp' = "resume"
    /\ UNCHANGED <<cur, closedS, nsess, closeExc, sess, attempt, nreq, hist, sleeps, rstatus>>
    /\ UNCHANGED <<shapeVars, askVars, renderVars, truncVars>>

\* Line 42: session.get raises (connection error, timeout).
NetFail(t) ==
    /\ pc[t] = "get"
    /\ out' = [out EXCEPT ![t] = "neterr"]
    /\ pc' = [pc EXCEPT ![t] = "done"]
    /\ lastOp' = "resume"
    /\ UNCHANGED <<cur, closedS, nsess, closeExc, sess, attempt, nreq, hist, sleeps, rstatus>>
    /\ UNCHANGED <<shapeVars, askVars, renderVars, truncVars>>

\* Lines 51-52, 39-42, 65: asyncio.sleep returns; the loop continues with the
\* next value of attempt on the session bound at line 36, or range(3) is
\* used up, attempt keeps its last value and line 65 raises.
\* aiohttp refuses a request on a closed session (RuntimeError).
Wake(t) ==
    /\ pc[t] = "sleep"
    /\ IF HasAttempt(AttemptOf(t) + 1)
       THEN /\ attempt' = [attempt EXCEPT ![t] = AttemptOf(t) + 1]
            /\ IF sess[t] \in closedS
               THEN /\ out' = [out EXCEPT ![t] = "sessclosed"]
                    /\ pc' = [pc EXCEPT ![t] = "done"]
                    /\ nreq' = nreq
               ELSE /\ nreq' = [nreq EXCEPT ![t] = @ + 1]
                    /\ pc' = [pc EXCEPT ![t] = "get"]
                    /\ out' = out
       ELSE /\ out' = [out EXCEPT ![t] = "exhausted"]
            /\ pc' = [pc EXCEPT ![t] = "done"]
            /\ UNCHANGED <<nreq, attempt>>
    /\ lastOp' = "resume"
    /\ UNCHANGED <<cur, closedS, nsess, closeExc, sess, hist, sleeps, rstatus>>
    /\ UNCHANGED <<shapeVars, askVars, renderVars, truncVars>>

\* Context7Client.close().
Close ==
    /\ LET c == CloseSession(cur, closedS) IN
        /\ closedS' = c.closedS
        /\ closeExc' = c.exc
    /\ lastOp' = "close"
    /\ UNCHANGED <<cur, nsess>>
    /\ UNCHANGED <<taskVars, shapeVars, askVars, renderVars, truncVars>>

ClientInit ==
    /\ cur = 0
    /\ closedS = {}
    /\ nsess = 0
    /\ lastOp = "init"
    /\ closeExc = FALSE

TaskInit ==
    /\ pc = [t \in Tasks |-> "idle"]
    /\ sess = [t \in Tasks |-> 0]
    /\ attempt = [t \in Tasks |-> 0]
    /\ nreq = [t \in Tasks |-> 0]
    /\ hist = [t \in Tasks |-> <<>>]
    /\ sleeps = [t \in Tasks |-> <<>>]
    /\ out = [t \in Tasks |-> "pending"]
    /\ rstatus = [t \in Tasks |-> 0]

ShapeIdle ==
    /\ body = JNull
    /\ gcRet = NoRet
    /\ slRet = NoRet

AskIdle ==
    /\ libIds = <<>>
    /\ fbody = [t \in Tasks |-> JNull]
    /\ returned = [t \in Tasks |-> FALSE]
    /\ results = [t \in Tasks |-> <<>>]
    /\ doneOrder = <<>>
    /\ allSnips = <<>>
    /\ askPc = "idle"
    /\ embed = [exc |-> "unset", fields |-> <<>>]
    /\ sendPc = "none"
    /\ sendLog = <<>>

RenderIdle ==
    /\ rIn = <<>>
    /\ rDeduped = <<>>
    /\ rQueue = <<>>
    /\ rFields = <<>>
    /\ rTotal = 0
    /\ rPc = "idle"

TruncIdle ==
    /\ tText = <<>>
    /\ tLimit = 0
    /\ tOut = <<>>
    /\ tPc = "idle"

Init == ClientInit /\ TaskInit /\ ShapeIdle /\ AskIdle /\ RenderIdle /\ TruncIdle

StartAny == \E t \in Tasks : Start(t)
RespondAny == \E t \in Tasks : \E st \in Statuses : Respond(t, st)
NetFailAny == \E t \in Tasks : NetFail(t)
TextReturnAny == \E t \in Tasks : TextReturn(t)
TextFailAny == \E t \in Tasks : TextFail(t)
WakeAny == \E t \in Tasks : Wake(t)

Next ==
    \/ StartAny \/ RespondAny \/ TextReturnAny \/ TextFailAny
    \/ NetFailAny \/ WakeAny \/ Close

Spec == Init /\ [][Next]_vars

(***************************************************************************)
(* SpecShape: get_context and search_library applied to the body of one    *)
(* successful response.                                                    *)
(***************************************************************************)
Chars(c, n) == JStr(Rep(c, n))

\* One "key": value member of a JSON object; the members of an object are
\* written one after the other with \o.
Pair(k, v) == <<<<k, v>>>>

SnipA == JObj(Pair("title", Chars("A", 1)) \o Pair("content", Chars("a", 3)))
SnipB == JObj(Pair("content", Chars("b", 5)) \o Pair("source", Chars("u", 10)))

ShapeKeys ==
    {"results", "snippets", "context", "data", "items",
     "content", "title", "libraries", "other"}

\* Values a key of a response object may hold: lists and non-lists.
ShapeVals ==
    {JList(<<>>), JList(<<SnipA>>), JList(<<SnipB, SnipA>>),
     JNull, Chars("a", 3), SnipA}

\* The order in which the keys of ShapeKeys stand in a response object.
\* get_context and search_library look keys up by name and never read the
\* order.
ShapeKeyOrder ==
    <<"results", "snippets", "context", "data", "items",
      "content", "title", "libraries", "other">>

ShapePairs(f) ==
    LET ks == SelectSeq(ShapeKeyOrder, LAMBDA k : k \in DOMAIN f)
    IN [i \in DOMAIN ks |-> <<ks[i], f[ks[i]]>>]

ShapeObjects ==
    {JObj(ShapePairs(f)) : f \in UNION {[K -> ShapeVals] :
                  K \in {K \in SUBSET ShapeKeys : Cardinality(K) <= MaxKeys}}}

ShapeScalars == {JNull, JBool, JNum, Chars("a", 3)}

ShapeLists ==
    {JList(<<>>), JList(<<SnipA>>), JList(<<SnipB, SnipA>>),
     JList(<<Chars("a", 3), JNull>>)}

ShapeBodies == ShapeObjects \cup ShapeLists \cup ShapeScalars

ShapeInit ==
    /\ ClientInit /\ TaskInit /\ AskIdle /\ RenderIdle /\ TruncIdle
    /\ body \in ShapeBodies
    /\ gcRet = NoRet
    /\ slRet = NoRet

\* get_context(library_id, query, "json") on a response with this body.
GetContext ==
    /\ gcRet = NoRet
    /\ gcRet' = GetContextJson(body)
    /\ UNCHANGED <<body, slRet>>
    /\ UNCHANGED <<clientVars, taskVars, askVars, renderVars, truncVars>>

\* search_library(library_name, query) on a response with this body.
SearchLibrary ==
    /\ slRet = NoRet
    /\ slRet' = SearchLibraryJson(body)
    /\ UNCHANGED <<body, gcRet>>
    /\ UNCHANGED <<clientVars, taskVars, askVars, renderVars, truncVars>>

ShapeNext == GetContext \/ SearchLibrary

SpecShape == ShapeInit /\ [][ShapeNext]_vars

(***************************************************************************)
(* SpecRender: build_embed on one list of records, one step per loop       *)
(* iteration.                                                              *)
(***************************************************************************)
\* The kinds of record the inputs are made of.  The record at position i
\* starts with i "x", so records at different positions have different
\* fingerprints, except "dup" and "dupcase", which repeat the first 200
\* characters of the "long" record of position 1, and "wsa" and "wsb",
\* whose first 200 characters differ from each other in letter case and in
\* the white space they end with.
Shapes ==
    {"long", "short", "empty", "blank", "nocontent", "dup", "dupcase",
     "bigsrc", "fence", "fit", "over", "nullc", "nullt", "longtitle",
     "wsa", "wsb"}

TitleT == Pair("title", Chars("T", 3))

Snip(shape, i) ==
    CASE shape = "long" ->
             JObj(TitleT \o Pair("content", JStr(<<Run("x", i), Run("a", 2000)>>)))
      [] shape = "short" ->
             JObj(Pair("content", JStr(<<Run("x", i), Run("a", 3)>>))
                  \o Pair("source", Chars("u", 20)))
      [] shape = "empty" ->
             JObj(TitleT \o Pair("content", EmptyStr) \o Pair("source", Chars("u", 20)))
      [] shape = "blank" ->
             JObj(TitleT \o Pair("content", Chars(" ", 2)))
      [] shape = "nocontent" ->
             JObj(TitleT)
      [] shape = "dup" ->
             JObj(TitleT \o Pair("content",
                      JStr(<<Run("x", 1), Run("a", 1500), Run("b", 5)>>)))
      [] shape = "dupcase" ->
             JObj(TitleT \o Pair("content", JStr(<<Run("X", 1), Run("A", 1500)>>)))
      [] shape = "bigsrc" ->
             JObj(TitleT \o Pair("content", JStr(<<Run("x", i), Run("a", 2000)>>))
                  \o Pair("source", Chars("u", 1100)))
      [] shape = "fence" ->
             JObj(TitleT \o Pair("content",
                      JStr(<<Run("x", i), Run("a", 1000), Run("tick", 3),
                             Run("a", 500)>>)))
      [] shape = "fit" ->
             JObj(TitleT \o Pair("content", JStr(<<Run("x", i), Run("a", 385 - i)>>)))
      [] shape = "over" ->
             JObj(TitleT \o Pair("content", JStr(<<Run("x", i), Run("a", 386 - i)>>)))
      [] shape = "nullc" ->
             JObj(TitleT \o Pair("content", JNull))
      [] shape = "nullt" ->
             JObj(Pair("title", JNull)
                  \o Pair("content", JStr(<<Run("x", i), Run("a", 3)>>)))
      [] shape = "wsa" ->
             JObj(TitleT \o Pair("content",
                      JStr(<<Run("b", 199), Run(" ", 1), Run("a", 50)>>)))
      [] shape = "wsb" ->
             JObj(Pair("title", Chars("T", 2)) \o Pair("content",
                      JStr(<<Run("B", 199), Run("nl", 1), Run("x", 50)>>)))
      [] OTHER ->
             JObj(Pair("title", Chars("T", 300))
                  \o Pair("content", JStr(<<Run("x", i), Run("a", 3)>>)))

\* n records of shape dflt, except that the record at position p (if any)
\* has shape sp.
MkInput(n, dflt, p, sp) == [i \in 1..n |-> Snip(IF i = p THEN sp ELSE dflt, i)]

RenderInputs ==
    {MkInput(n, dflt, 0, dflt) : n \in 0..MaxSnips, dflt \in Shapes}
    \cup UNION {{MkInput(n, dflt, p, sp) : p \in 1..n, sp \in Shapes} :
                  n \in 0..MaxSnips, dflt \in Shapes}

RenderInit ==
    /\ ClientInit /\ TaskInit /\ ShapeIdle /\ AskIdle /\ TruncIdle
    /\ rIn \in RenderInputs
    /\ rDeduped = <<>>
    /\ rQueue = <<>>
    /\ rFields = <<>>
    /\ rTotal = 0
    /\ rPc = "start"

\* main.py:197-210: create the embed, dedupe, take the first six.
RenderStart ==
    /\ rPc = "start"
    /\ LET d == DedupSnippets(rIn) IN
       IF d.exc # "none"
       THEN rPc' = "raised" /\ rQueue' = <<>> /\ rDeduped' = <<>>
       ELSE rPc' = "loop" /\ rQueue' = FirstFields(d.val) /\ rDeduped' = d.val
    /\ UNCHANGED <<rIn, rFields, rTotal>>
    /\ UNCHANGED <<clientVars, taskVars, shapeVars, askVars, truncVars>>

\* main.py:210-231: one iteration of the loop.
RenderIter ==
    /\ rPc = "loop"
    /\ rQueue # <<>>
    /\ LET st == EmbedIter([fields |-> rFields, total |-> rTotal, status |-> "run"],
                           Head(rQueue))
       IN /\ rFields' = st.fields
          /\ rTotal' = st.total
          /\ rPc' = IF st.status = "raised" THEN "raised" ELSE "loop"
          /\ rQueue' = IF st.status = "run" THEN Tail(rQueue) ELSE <<>>
    /\ UNCHANGED <<rIn, rDeduped>>
    /\ UNCHANGED <<clientVars, taskVars, shapeVars, askVars, truncVars>>

\* main.py:233-234: the loop has ended or was left by break.
RenderFinish ==
    /\ rPc = "loop"
    /\ rQueue = <<>>
    /\ rPc' = "done"
    /\ UNCHANGED <<rIn, rDeduped, rQueue, rFields, rTotal>>
    /\ UNCHANGED <<clientVars, taskVars, shapeVars, askVars, truncVars>>

RenderNext == RenderStart \/ RenderIter \/ RenderFinish

SpecRender == RenderInit /\ [][RenderNext]_vars

(***************************************************************************)
(* SpecTruncate: _safe_truncate (main.py:179-193) on one text and one      *)
(* limit.  The texts are all texts of at most MaxRuns runs of letters,     *)
(* backticks and spaces; the limits are the values build_embed computes as *)
(* max_field_len - len(source_link) - 1 (main.py:220) for sources of the   *)
(* lengths of TruncSourceLens.                                             *)
(***************************************************************************)
TruncChars == {"a", "tick", " "}

RunLens == {1, 3, 4}

TruncRuns == {Run(c, n) : c \in TruncChars, n \in RunLens}

\* No two neighbouring runs are of the same character.
IsNormal(s) == \A k \in 1..(Len(s) - 1) : s[k].c # s[k + 1].c

TruncTexts ==
    UNION {{s \in [1..k -> TruncRuns] : IsNormal(s)} : k \in 0..MaxRuns}

\* No source, and sources whose link leaves a limit from 16 down to -3.
TruncSourceLens == {0} \cup (996..1015)

\* available (main.py:220) for a source of n characters.
Available(n) ==
    MAX_FIELD_LEN - StrLen(SourceLink(JStr(Rep("u", n)))) - 1

TruncLimits == {Available(n) : n \in TruncSourceLens}

TruncInit ==
    /\ ClientInit /\ TaskInit /\ ShapeIdle /\ AskIdle /\ RenderIdle
    /\ tText \in TruncTexts
    /\ tLimit \in TruncLimits
    /\ tOut = <<>>
    /\ tPc = "call"

\* main.py:179-193: the call and its return.
SafeTruncateCall ==
    /\ tPc = "call"
    /\ tOut' = SafeTruncate(tText, tLimit)
    /\ tPc' = "returned"
    /\ UNCHANGED <<tText, tLimit>>
    /\ UNCHANGED <<clientVars, taskVars, shapeVars, askVars, renderVars>>

TruncNext == SafeTruncateCall

SpecTruncate == TruncInit /\ [][TruncNext]_vars

(***************************************************************************)
(* SpecAsk: ask_command (main.py:81-134).  Task t runs _fetch(libIds[t]).  *)
(***************************************************************************)
\* main.py:45
DEFAULT_LIBRARY == "/websites/all-hands_dev"

\* main.py:53-56
ALL_LIBRARY_IDS == <<"/websites/all-hands_dev", "/openhands/openhands">>

\* lib_ids for the three choices of main.py:47-51 and for no choice
\* (main.py:86-87).
LibChoices == {<<DEFAULT_LIBRARY>>, <<"/openhands/openhands">>, ALL_LIBRARY_IDS}

\* A library id as a string value: one opaque character.
LibStr(lib) == JStr(<<Run(lib, 1)>>)

\* s["_source_lib"] = lib_id (main.py:106)
Tag(snip, lib) ==
    [snip EXCEPT
        !.obj = [k \in DOMAIN snip.obj \cup {"_source_lib"} |->
                    IF k = "_source_lib" THEN LibStr(lib) ELSE snip.obj[k]],
        !.keys = IF HasKey(snip, "_source_lib") THEN @
                 ELSE Append(@, "_source_lib")]

TagAll(items, lib) == [i \in DOMAIN items |-> Tag(items[i], lib)]

\* _fetch(lib_id) (main.py:100-111) once _request has ended with outcome o
\* and, if it succeeded, the response body b: the list returned, or
\* raised = TRUE if an exception leaves _fetch.
FetchBranchPropagate(o, b, lib) ==
    IF o # "ok" THEN [raised |-> TRUE, recs |-> <<>>]
    ELSE LET r == GetContextJson(b) IN
         IF r.exc # "none" THEN [raised |-> TRUE, recs |-> <<>>]
         ELSE IF \E i \in DOMAIN r.val.items : ~IsDict(r.val.items[i])
              THEN [raised |-> TRUE, recs |-> <<>>]
         ELSE [raised |-> FALSE, recs |-> TagAll(r.val.items, lib)]

FetchBranch(o, b, lib) ==
    \* _request raised: caught at line 109
    IF o # "ok" THEN [raised |-> FALSE, recs |-> <<>>]
    ELSE LET r == GetContextJson(b) IN
         \* get_context raised: caught at line 109
         IF r.exc # "none" THEN [raised |-> FALSE, recs |-> <<>>]
         \* line 108
         ELSE IF ~IsList(r.val) THEN [raised |-> FALSE, recs |-> <<>>]
         \* line 106 on an item that is no dict: TypeError, caught at line 109
         ELSE IF \E i \in DOMAIN r.val.items : ~IsDict(r.val.items[i])
              THEN [raised |-> FALSE, recs |-> <<>>]
         ELSE [raised |-> FALSE, recs |-> TagAll(r.val.items, lib)]

\* [s for batch in results for s in batch] (main.py:114): the batches in
\* the order of the tasks given, concatenated.
RECURSIVE Flatten(_, _)
Flatten(batches, order) ==
    IF order = <<>> THEN <<>>
    ELSE batches[Head(order)] \o Flatten(batches, Tail(order))

\* The order in which asyncio.gather lists the results (main.py:113): that
\* of its arguments.
GatherOrderByCompletion(n, done) == done

GatherOrder(n, done) == [i \in 1..n |-> i]

SnipC == JObj(Pair("title", Chars("T", 3)) \o Pair("content", Chars("x", 4)))

\* Bodies of successful responses: a list of two records, an object holding
\* a list under results, an object that is itself a record, an object of
\* no recognised shape, a scalar, a list holding a non-object, a list
\* holding a record whose content is null.
AskBodies ==
    {JList(<<SnipA, SnipB>>),
     JObj(Pair("results", JList(<<SnipC>>))),
     SnipC,
     JObj(Pair("other", JNull)),
     JNull,
     JList(<<SnipA, Chars("a", 3)>>),
     JList(<<JObj(Pair("content", JNull))>>)}

AskTasks == 1..Len(libIds)

AskInit ==
    /\ ClientInit /\ TaskInit /\ ShapeIdle /\ RenderIdle /\ TruncIdle
    /\ libIds \in LibChoices
    /\ fbody = [t \in Tasks |-> JNull]
    /\ returned = [t \in Tasks |-> FALSE]
    /\ results = [t \in Tasks |-> <<>>]
    /\ doneOrder = <<>>
    /\ allSnips = <<>>
    /\ askPc = "gather"
    /\ embed = [exc |-> "unset", fields |-> <<>>]
    /\ sendPc = "none"
    /\ sendLog = <<>>

\* asyncio.gather starts the _fetch coroutines in the order given; each
\* runs up to its first GET.
AskStart(t) ==
    /\ askPc = "gather"
    /\ t \in AskTasks
    /\ \A u \in 1..(t - 1) : pc[u] # "idle"
    /\ Start(t)

\* main.py:102-111: _request has returned or raised; the body is read and
\* normalised, the records are tagged, _fetch returns.
FetchReturn(t, b) ==
    /\ askPc = "gather"
    /\ t \in AskTasks
    /\ pc[t] = "done"
    /\ ~returned[t]
    /\ out[t] # "ok" => b = JNull
    /\ LET f == FetchBranch(out[t], b, libIds[t]) IN
         /\ results' = [results EXCEPT ![t] = f.recs]
         /\ askPc' = IF f.raised THEN "failed" ELSE askPc
    /\ fbody' = [fbody EXCEPT ![t] = b]
    /\ returned' = [returned EXCEPT ![t] = TRUE]
    /\ doneOrder' = Append(doneOrder, t)
    /\ UNCHANGED <<libIds, allSnips, embed, sendPc, sendLog>>
    /\ UNCHANGED <<clientVars, taskVars, shapeVars, renderVars, truncVars>>

\* main.py:113-130, 132-134: gather returns once every _fetch has; the
\* batches are flattened; with no record the no-documentation message is
\* handed to followup.send (line 120), else the embed is built and handed
\* to followup.send (line 130), or, if build_embed raised, the apology
\* (line 134).  The command is then suspended in that send.
Join ==
    /\ askPc = "gather"
    /\ \A t \in AskTasks : returned[t]
    /\ LET all == Flatten(results, GatherOrder(Len(libIds), doneOrder))
           e == BuildEmbed(all)
       IN /\ allSnips' = all
          /\ IF all = <<>>
             THEN askPc' = "nodocs" /\ embed' = embed /\ sendLog' = <<"nodocs">>
             ELSE /\ embed' = e
                  /\ askPc' = IF e.exc = "none" THEN "sent" ELSE "failed"
                  /\ sendLog' = IF e.exc = "none" THEN <<"embed">>
                                ELSE <<"apology">>
    /\ sendPc' = "flight"
    /\ UNCHANGED <<libIds, fbody, returned, results, doneOrder>>
    /\ UNCHANGED <<clientVars, taskVars, shapeVars, renderVars, truncVars>>

\* The send in flight completes: ask_command returns (line 123, or the
\* end of the try or of the handler).
SendOk ==
    /\ sendPc = "flight"
    /\ sendPc' = "done"
    /\ UNCHANGED <<libIds, fbody, returned, results, doneOrder, allSnips,
                   askPc, embed, sendLog>>
    /\ UNCHANGED <<clientVars, taskVars, shapeVars, renderVars, truncVars>>

\* The send in flight raises.  Raised at line 120 or 130 the exception is
\* caught at line 132 and the apology is handed to followup.send (line
\* 134); raised at line 134 it leaves ask_command.
SendFail ==
    /\ sendPc = "flight"
    /\ IF sendLog[Len(sendLog)] # "apology"
       THEN /\ askPc' = "failed"
            /\ sendLog' = Append(sendLog, "apology")
            /\ sendPc' = "flight"
       ELSE /\ sendPc' = "raised"
            /\ UNCHANGED <<askPc, sendLog>>
    /\ UNCHANGED <<libIds, fbody, returned, results, doneOrder, allSnips, embed>>
    /\ UNCHANGED <<clientVars, taskVars, shapeVars, renderVars, truncVars>>

AskStartAny == \E t \in Tasks : AskStart(t)
FetchReturnAny == \E t \in Tasks : \E b \in AskBodies : FetchReturn(t, b)

AskNext ==
    \/ AskStartAny \/ RespondAny \/ TextReturnAny \/ TextFailAny
    \/ NetFailAny \/ WakeAny \/ FetchReturnAny \/ Join \/ SendOk \/ SendFail

SpecAsk == AskInit /\ [][AskNext]_vars

(***************************************************************************)
(* Properties of _request.                                                 *)
(***************************************************************************)
AllRateLimited(h) == \A i \in DOMAIN h : h[i] = RATE_LIMITED

IsUpstreamError(st) == st >= ERROR_FLOOR /\ st # RATE_LIMITED

\* The sleeps of a call that was rate limited k times: 1, 2, ..., 2^(k-1).
BackoffSchedule(k) == [i \in 1..k |-> Pow2(i - 1)]

\* C1: a call whose upstream answers 429 on every attempt sends exactly 3
\* requests, sleeps 1, 2 and 4 seconds (7 in all) and then fails with the
\* rate-limit-exhausted error; while only 429s have been received the call
\* has neither succeeded nor failed with an upstream-status error, and no
\* call ever sends a fourth request.
C1_ExhaustedAfterThree429 ==
    \A t \in Tasks :
        /\ nreq[t] <= 3 /\ Len(hist[t]) <= 3
        /\ (hist[t] # <<>> /\ AllRateLimited(hist[t]))
               => out[t] \notin {"ok", "upstream"}
        /\ (pc[t] = "done" /\ hist[t] = <<429, 429, 429>>)
               => /\ nreq[t] = 3
                  /\ sleeps[t] = <<1, 2, 4>>
                  /\ Waited(t) = 7
                  /\ out[t] = "exhausted"
                  /\ rstatus[t] = 0
        /\ out[t] = "exhausted" => hist[t] = <<429, 429, 429>>

C1_Witness ==
    \E t \in Tasks : out[t] = "exhausted" /\ hist[t] = <<429, 429, 429>>

\* C2: the first response with a status >= 400 other than 429 ends the call
\* at that attempt: it is the last response received, one request was sent
\* per response, the only sleeps are those of the 429s before it, and the
\* call is reading the body of that response or has ended with an upstream
\* error carrying that status, which is not the rate-limit-exhausted error.
C2_UpstreamErrorIsTerminal ==
    \A t \in Tasks :
        /\ \A i \in DOMAIN hist[t] :
              IsUpstreamError(hist[t][i])
                  => /\ i = Len(hist[t])
                     /\ nreq[t] = i
                     /\ attempt[t] = i - 1
                     /\ sleeps[t] = BackoffSchedule(i - 1)
                     /\ \/ pc[t] = "text" /\ out[t] = "pending"
                        \/ /\ pc[t] = "done"
                           /\ out[t] = "upstream"
                           /\ rstatus[t] = hist[t][i]
        /\ out[t] = "upstream"
              => hist[t] # <<>> /\ IsUpstreamError(hist[t][Len(hist[t])])

\* C3: a call whose first k < 3 responses are 429 and whose next response
\* has a status < 400 returns that response after exactly k + 1 requests and
\* k sleeps of 1, 2, ... seconds, 2^k - 1 seconds in all; 429 then 200 is
\* two requests and one sleep of 1 second.
C3_SuccessAfterBackoff ==
    \A t \in Tasks :
        /\ (hist[t] # <<>> /\ hist[t][Len(hist[t])] < ERROR_FLOOR)
              => LET k == Len(hist[t]) - 1 IN
                 /\ k < 3
                 /\ \A i \in 1..k : hist[t][i] = RATE_LIMITED
                 /\ pc[t] = "done"
                 /\ out[t] = "ok"
                 /\ rstatus[t] = hist[t][k + 1]
                 /\ nreq[t] = k + 1
                 /\ Len(sleeps[t]) = k
                 /\ Waited(t) = Pow2(k) - 1
        /\ hist[t] = <<429, 200>>
              => out[t] = "ok" /\ nreq[t] = 2 /\ sleeps[t] = <<1>> /\ Waited(t) = 1
        /\ out[t] = "ok"
              => hist[t] # <<>> /\ hist[t][Len(hist[t])] < ERROR_FLOOR

C3_Witness ==
    \E t \in Tasks : hist[t] = <<429, 200>> /\ out[t] = "ok" /\ Waited(t) = 1

(***************************************************************************)
(* Properties of the session lifecycle.                                    *)
(***************************************************************************)
\* C7: no session exists before the first request; a request start
\* constructs a session only when there is none or the current one is
\* closed, and otherwise binds the current one; close() closes the current
\* session if it is open, changes nothing when there is none or it is
\* already closed, and never raises.
C7_SessionLifecycle ==
    /\ []((\A t \in Tasks : pc[t] = "idle") => (cur = 0 /\ nsess = 0))
    /\ [][
          /\ lastOp' = "start" =>
                /\ IF cur = 0 \/ cur \in closedS
                   THEN nsess' = nsess + 1 /\ cur' = nsess' /\ cur' \notin closedS'
                   ELSE nsess' = nsess /\ cur' = cur
                /\ closedS' = closedS
                /\ \E t \in Tasks : pc[t] = "idle" /\ pc'[t] = "get" /\ sess'[t] = cur'
          /\ lastOp' = "close" =>
                /\ closeExc' = FALSE
                /\ cur' = cur /\ nsess' = nsess
                /\ closedS' = IF cur # 0 THEN closedS \cup {cur} ELSE closedS
                /\ (cur = 0 \/ cur \in closedS) => closedS' = closedS
       ]_vars

C7_Witness ==
    /\ lastOp = "close" /\ nsess = 2 /\ cur = 2
    /\ closedS = {1, 2}
    /\ sess[1] # sess[2]


(***************************************************************************)
(* Properties of the response normalisation.                               *)
(***************************************************************************)
C4_Priority == <<"results", "snippets", "context", "data", "items">>

\* The listed keys of an object that hold a list, as positions in the
\* priority order.
C4_ListKeys(b) ==
    {i \in DOMAIN C4_Priority :
        C4_Priority[i] \in DOMAIN b.obj /\ b.obj[C4_Priority[i]].t = "list"}

C4_Expected(b) ==
    IF b.t = "list" THEN b
    ELSE IF C4_ListKeys(b) # {}
         THEN b.obj[C4_Priority[CHOOSE i \in C4_ListKeys(b) :
                                    \A j \in C4_ListKeys(b) : i <= j]]
    ELSE IF "content" \in DOMAIN b.obj \/ "title" \in DOMAIN b.obj
         THEN JList(<<b>>)
    ELSE JList(<<>>)

\* C4: for a body that is a list or an object, get_context returns the
\* list itself; else the value of the first of results, snippets, context,
\* data, items that holds a list; else the object wrapped in a one-element
\* list when it has a content or title key; else the empty list.  A listed
\* key that holds no list is passed over.
C4_FirstRuleWins ==
    (gcRet # NoRet /\ body.t \in {"list", "obj"})
        => gcRet = Returned(C4_Expected(body))

C4_Witness ==
    /\ gcRet # NoRet /\ body.t = "obj"
    /\ DOMAIN body.obj = {"results", "data", "content"}
    /\ body.obj["results"].t # "list"
    /\ body.obj["data"] = JList(<<SnipB, SnipA>>)
    /\ gcRet = Returned(JList(<<SnipB, SnipA>>))

\* C5: get_context never raises on a successfully fetched JSON body and
\* always returns a list, whatever the shape of the body.
C5_ShapeMismatchNeverRaises ==
    gcRet # NoRet => (gcRet.exc = "none" /\ gcRet.val.t = "list")

\* C6: search_library returns a list for every body that is a list or an
\* object, whatever its results or libraries key holds.
C6_SearchAlwaysList ==
    (slRet # NoRet /\ body.t \in {"list", "obj"})
        => (slRet.exc = "none" /\ slRet.val.t = "list")


(***************************************************************************)
(* Properties of the fan-out of ask_command.                               *)
(***************************************************************************)
\* The records of all_snippets that task t's library is tagged on.
C8_From(t) ==
    SelectSeq(allSnips, LAMBDA r : r.obj["_source_lib"] = LibStr(libIds[t]))

\* Task t's fetch failed: its request did, or the body could not be
\* normalised, or a record could not be tagged.
C8_Failed(t) ==
    \/ out[t] # "ok"
    \/ fbody[t].t \notin {"list", "obj"}
    \/ (fbody[t].t = "list" /\ \E i \in DOMAIN fbody[t].items :
                                   fbody[t].items[i].t # "obj")

\* The number of records in the body of a successful fetch.
C8_Records(t) ==
    IF fbody[t].t = "list" THEN Len(fbody[t].items)
    ELSE IF \E k \in {"results", "snippets", "context", "data", "items"} :
                k \in DOMAIN fbody[t].obj /\ fbody[t].obj[k].t = "list"
         THEN Len(C4_Expected(fbody[t]).items)
    ELSE IF "content" \in DOMAIN fbody[t].obj \/ "title" \in DOMAIN fbody[t].obj
         THEN 1
    ELSE 0

\* C8: a failed fetch never fails the command or its siblings: a failed
\* branch returns no record, the command waits for every branch whatever
\* the others did (it fails only after the join, when build_embed raised
\* or when the send of the reply raised), and in all_snippets the failed
\* branch has no record and every branch that succeeded has all of its
\* records.
C8_PartialFailureIsolated ==
    /\ \A t \in AskTasks : (returned[t] /\ C8_Failed(t)) => results[t] = <<>>
    /\ askPc = "failed" =>
          /\ \A t \in AskTasks : returned[t]
          /\ \/ embed.exc \notin {"unset", "none"} /\ sendLog = <<"apology">>
             \/ embed.exc = "none" /\ sendLog = <<"embed", "apology">>
             \/ embed.exc = "unset" /\ sendLog = <<"nodocs", "apology">>
    /\ askPc \in {"nodocs", "sent", "failed"} =>
          \A t \in AskTasks :
              Len(C8_From(t)) = IF C8_Failed(t) THEN 0 ELSE C8_Records(t)

C8_Witness ==
    /\ askPc = "sent" /\ sendPc = "done"
    /\ Len(libIds) = 2
    /\ out[1] = "exhausted"
    /\ out[2] = "ok" /\ fbody[2] = JList(<<SnipA, SnipB>>)
    /\ Len(allSnips) = 2

\* C9: the command leaves the join only when every fetch has returned, and
\* all_snippets is then the results of the fetches concatenated in the
\* order the libraries were requested, whatever order they completed in.
C9_JoinInRequestOrder ==
    askPc \in {"nodocs", "sent", "failed"} =>
        /\ \A t \in AskTasks : returned[t] /\ pc[t] = "done"
        /\ allSnips = IF Len(libIds) = 2 THEN results[1] \o results[2]
                      ELSE results[1]
        /\ embed.exc = "none" =>
              \A k \in DOMAIN embed.fields :
                  \E i \in DOMAIN allSnips :
                      embed.fields[k].value = FieldText(allSnips[i])

\* The second library completed first and both contributed.
C9_Witness ==
    /\ askPc = "sent" /\ sendPc = "done"
    /\ doneOrder = <<2, 1>>
    /\ results[1] # <<>> /\ results[2] # <<>>
    /\ allSnips = results[1] \o results[2]

(***************************************************************************)
(* Properties of build_embed.                                              *)
(***************************************************************************)
RECURSIVE C10_BodyChars(_)
C10_BodyChars(fields) ==
    IF fields = <<>> THEN 0
    ELSE StrLen(fields[1].value) + C10_BodyChars(Tail(fields))

\* The field bodies the input records would give, each taken whole.
C10_Candidates ==
    {FieldText(rIn[i]) :
        i \in {j \in DOMAIN rIn :
                  IsDict(rIn[j]) /\ DictGet(rIn[j], "content", EmptyStr).t = "str"}}

\* C10: at every point of build_embed, the field bodies added so far sum
\* to at most 5500 characters, the running total is that sum, and every
\* field body is the whole body of one input record.
C10_AggregateLimit ==
    /\ C10_BodyChars(rFields) <= 5500
    /\ rTotal = C10_BodyChars(rFields) \/ rPc = "raised"
    /\ \A k \in DOMAIN rFields : rFields[k].value \in C10_Candidates

\* Five fields of 1023 characters were added and the sixth was refused.
C10_Witness ==
    /\ rPc = "done"
    /\ Len(rIn) = 7
    /\ Len(rFields) = 5
    /\ rTotal = 5115

\* C11: every field of the embed has a value of at most 1024 characters and
\* a name of at most 256 characters, whatever the length of the source URL.
C11_FieldLimits ==
    \A k \in DOMAIN rFields :
        /\ StrLen(rFields[k].value) <= 1024
        /\ StrLen(rFields[k].name) <= 256

\* The content of a record, "" when the key is absent (snip.get's default).
ContentOf(snip) == DictGet(snip, "content", EmptyStr)

\* C12: when build_embed has returned for an input that is empty or whose
\* records all have the empty string as content, the embed has no field.
C12_EmptyContentGivesNoField ==
    (/\ rPc = "done"
     /\ \A i \in DOMAIN rIn : ContentOf(rIn[i]) = EmptyStr)
        => rFields = <<>>

\* The first 200 characters of a record's content, up to letter case and
\* surrounding white space.
Head200(snip) == Lower(Strip(PySliceTo(ContentOf(snip).s, 200)))

\* The text s without its first n characters, s[n:] for n >= 0.
RECURSIVE C13_Drop(_, _)
C13_Drop(s, n) ==
    IF s = <<>> \/ n <= 0 THEN s
    ELSE IF s[1].n <= n THEN C13_Drop(Tail(s), n - s[1].n)
    ELSE <<Run(s[1].c, s[1].n - n)>> \o Tail(s)

\* Records i and j of the input, i before j, agree on the first 200
\* characters up to letter case and white space, and differ in the text
\* after them.
C13_Pair(i, j) ==
    /\ i < j
    /\ Head200(rIn[i]) = Head200(rIn[j])
    /\ C13_Drop(ContentOf(rIn[i]).s, 200) # C13_Drop(ContentOf(rIn[j]).s, 200)

\* No earlier record of the input has the head of record i.
IsFirstOfHead(i) == \A m \in 1..(i - 1) : Head200(rIn[m]) # Head200(rIn[i])

\* The field build_embed makes of a record.
C13_FieldOf(snip) ==
    [name  |-> PySliceTo(DictGet(snip, "title", JStr(Untitled)).s, 256),
     value |-> FieldText(snip)]

RangeOf(seq) == {seq[k] : k \in DOMAIN seq}

\* How many records up to i are the first of their head.
C13_Rank(i) == Cardinality({k \in 1..i : IsFirstOfHead(k)})

\* The characters of the non-blank field bodies of the first-of-their-head
\* records up to i.
RECURSIVE C13_CharsUpTo(_)
C13_CharsUpTo(i) ==
    IF i = 0 THEN 0
    ELSE C13_CharsUpTo(i - 1)
         + (IF IsFirstOfHead(i) /\ Strip(FieldText(rIn[i])) # <<>>
            THEN StrLen(FieldText(rIn[i])) ELSE 0)

\* C13 as stated: when build_embed has returned, of two records that agree
\* on their first 200 characters up to case and white space the first has
\* a field in the embed and the second has none.
C13_FirstOnlyRendered ==
    rPc = "done" =>
        \A i, j \in DOMAIN rIn :
            C13_Pair(i, j) =>
                /\ C13_FieldOf(rIn[i]) \in RangeOf(rFields)
                /\ \/ C13_FieldOf(rIn[j]) \notin RangeOf(rFields)
                   \/ C13_FieldOf(rIn[j]) = C13_FieldOf(rIn[i])

\* C13, amended: in build_embed after the dedupe, the deduped records and
\* the fields come only from records that are the first of their head in
\* the input, one per head, so the second record of such a pair never has a
\* field; and when build_embed has returned, the first record of the pair
\* has a field provided it is the first of its head in the whole input, is
\* among the first six such records, its field body is not blank, and the
\* field bodies up to it fit the 5500 characters.
C13_SecondNeverRendered ==
    rPc \in {"loop", "done"} =>
        /\ Len(rDeduped) = Cardinality({k \in DOMAIN rIn : IsFirstOfHead(k)})
        /\ \A q \in RangeOf(rDeduped) :
               \E k \in DOMAIN rIn : IsFirstOfHead(k) /\ rIn[k] = q
        /\ \A f \in RangeOf(rFields) :
               \E k \in DOMAIN rIn : IsFirstOfHead(k) /\ C13_FieldOf(rIn[k]) = f
        /\ Len(rFields) <= Len(rDeduped)
        /\ rPc = "done" =>
               \A i, j \in DOMAIN rIn :
                   (/\ C13_Pair(i, j)
                    /\ IsFirstOfHead(i)
                    /\ C13_Rank(i) <= 6
                    /\ Strip(FieldText(rIn[i])) # <<>>
                    /\ C13_CharsUpTo(i) <= 5500)
                       => C13_FieldOf(rIn[i]) \in RangeOf(rFields)

\* Two records whose first 200 characters differ in case and in the white
\* space at their end, and whose later text differs, gave one field, made
\* of the first record.
C13_Witness ==
    /\ rPc = "done"
    /\ Len(rIn) = 2
    /\ C13_Pair(1, 2)
    /\ Lower(PySliceTo(ContentOf(rIn[1]).s, 200))
           # Lower(PySliceTo(ContentOf(rIn[2]).s, 200))
    /\ PySliceTo(ContentOf(rIn[1]).s, 200) # Lower(PySliceTo(ContentOf(rIn[1]).s, 200))
       \/ PySliceTo(ContentOf(rIn[2]).s, 200) # Lower(PySliceTo(ContentOf(rIn[2]).s, 200))
    /\ rFields = <<C13_FieldOf(rIn[1])>>
    /\ C13_FieldOf(rIn[2]) # C13_FieldOf(rIn[1])

\* The records of the input from position i on that are the first of their
\* head, in input order.
RECURSIVE C14_FirstOccurrences(_)
C14_FirstOccurrences(i) ==
    IF i > Len(rIn) THEN <<>>
    ELSE (IF IsFirstOfHead(i) THEN <<rIn[i]>> ELSE <<>>)
         \o C14_FirstOccurrences(i + 1)

\* C14: for an input whose records all have a string (or no) content, the
\* list _dedup_snippets returned is the input's first occurrences of each
\* fingerprint in input order, is no longer than the input, has pairwise
\* distinct fingerprints, and is left as it is by _dedup_snippets.
C14_DedupeFirstOccurrences ==
    (/\ rPc # "start"
     /\ \A i \in DOMAIN rIn : ContentOf(rIn[i]).t = "str")
        => /\ rDeduped = C14_FirstOccurrences(1)
           /\ Len(rDeduped) <= Len(rIn)
           /\ \A a, b \in DOMAIN rDeduped :
                  a # b => Head200(rDeduped[a]) # Head200(rDeduped[b])
           /\ DedupSnippets(rDeduped) = [exc |-> "none", val |-> rDeduped]

\* A record was dropped whose fingerprint had been seen two records
\* earlier, the record between them having another fingerprint.
C14_Witness ==
    /\ rPc = "loop"
    /\ Len(rDeduped) = 2
    /\ \E i \in DOMAIN rIn :
           /\ i + 2 \in DOMAIN rIn
           /\ Head200(rIn[i]) = Head200(rIn[i + 2])
           /\ Head200(rIn[i]) # Head200(rIn[i + 1])
           /\ ContentOf(rIn[i + 1]).t = "str"
           /\ ContentOf(rIn[i]).t = "str"

\* C17: build_embed never raises, whatever the records hold under content,
\* title and source.
C17_RenderNeverRaises == rPc # "raised"

\* The number of distinct fingerprints among the records whose content is
\* not empty.
C18_DistinctNonEmpty ==
    Cardinality({Head200(rIn[i]) :
                    i \in {k \in DOMAIN rIn : ContentOf(rIn[k]) # EmptyStr}})

\* The characters of the field bodies of all records from position i on.
RECURSIVE C18_AllChars(_)
C18_AllChars(i) ==
    IF i > Len(rIn) THEN 0
    ELSE StrLen(FieldText(rIn[i])) + C18_AllChars(i + 1)

\* C18: when build_embed has returned for an input whose candidate fields
\* all fit the 5500 characters, the embed has min(6, d) fields, d the number
\* of distinct fingerprints among the records with non-empty content.
C18_EmptyRecordUsesNoSlot ==
    (/\ rPc = "done"
     /\ C18_AllChars(1) <= 5500)
        => Len(rFields) = Min(6, C18_DistinctNonEmpty)

(***************************************************************************)
(* Properties of _safe_truncate.                                           *)
(***************************************************************************)
\* C15: for every text and every limit build_embed can pass, the string
\* _safe_truncate returns has at most limit + 1 characters, and is the
\* text itself when the text has at most limit characters.
C15_TruncateLength ==
    tPc = "returned" =>
        /\ StrLen(tOut) <= tLimit + 1
        /\ StrLen(tText) <= tLimit => tOut = tText

\* C16: when the text has an even number of fence markers, so has the
\* string _safe_truncate returns, whatever the limit.
C16_FencesStayClosed ==
    (/\ tPc = "returned"
     /\ CountFences(tText) % 2 = 0)
        => CountFences(tOut) % 2 = 0

\* The cut at limit - 1 fell inside a run of four backticks of a text with
\* an even, non-zero number of markers, and left an odd number of them
\* before the repair.
C16_Witness ==
    /\ tPc = "returned"
    /\ CountFences(tText) % 2 = 0
    /\ CountFences(tText) >= 2
    /\ tOut # tText
    /\ LET truncated == PySliceTo(tText, tLimit - 1) IN
       /\ truncated # <<>>
       /\ truncated[Len(truncated)].c = "tick"
       /\ tText[Len(truncated)].n = 4
       /\ truncated[Len(truncated)].n < 4
       /\ CountFences(truncated) % 2 = 1
    /\ CountFences(tOut) % 2 = 0

(***************************************************************************)
(* Properties of concurrent _request calls and close().                    *)
(***************************************************************************)
\* The number of 429 responses in a history of statuses.
RECURSIVE C19_Count429(_)
C19_Count429(h) ==
    IF h = <<>> THEN 0
    ELSE (IF h[1] = 429 THEN 1 ELSE 0) + C19_Count429(Tail(h))

\* The retry state of call t.
C19_RetryState(t) == <<pc[t], attempt[t], nreq[t], hist[t], sleeps[t], out[t]>>

\* C19: the attempt counter of every call counts the call's own 429s only
\* (those it has slept off and gone on from), a call gives up only after
\* three 429s of its own, a step of one call leaves the retry state of
\* every other call as it was, and while a call sleeps in its backoff every
\* other call can take its next step: start, receive its response, read
\* the body of an error response, or wake up.
C19_NoSharedRetryState ==
    /\ [](\A t \in Tasks :
            /\ attempt[t] = C19_Count429(hist[t])
                              - (IF pc[t] = "sleep" \/ out[t] = "exhausted"
                                 THEN 1 ELSE 0)
            /\ nreq[t] <= 3
            /\ out[t] = "exhausted" => hist[t] = <<429, 429, 429>>
            /\ (pc[t] = "get" /\ \A k \in DOMAIN hist[t] : hist[t][k] = 429)
                   => nreq[t] = Len(hist[t]) + 1)
    /\ [](\A t, u \in Tasks :
            (t # u /\ pc[t] = "sleep") =>
                /\ pc[u] = "idle" => ENABLED Start(u)
                /\ pc[u] = "get" => ENABLED Respond(u, 200)
                /\ pc[u] = "text" => ENABLED TextReturn(u)
                /\ pc[u] = "sleep" => ENABLED Wake(u))
    /\ [][\A t, u \in Tasks :
            (t # u /\ C19_RetryState(t)' # C19_RetryState(t))
                => C19_RetryState(u)' = C19_RetryState(u)]_vars

\* Call 2 has its third request in flight, after two 429s of its own,
\* while call 1 sleeps after its second 429: four 429s on the client.
C19_Witness ==
    /\ pc[1] = "sleep" /\ hist[1] = <<429, 429>>
    /\ pc[2] = "get" /\ hist[2] = <<429, 429>> /\ nreq[2] = 3
    /\ attempt[1] = 1 /\ attempt[2] = 2

\* C20: no attempt of a call is made on a closed session: a call whose
\* session was closed during its backoff sleep makes its next attempt on
\* an open session.
C20_RequestsOnOpenSession ==
    \A t \in Tasks : out[t] # "sessclosed"

====
